---------------------------- MODULE Spec2Model ----------------------------
(***************************************************************************)
(* Model of scripts/gather_skill.py: main, clone_repo, gather_skill,       *)
(* classify_file and format_output.                                        *)
(*                                                                         *)
(* The file system under skill_path is the input.  A directory is a record *)
(* [name, symlink, dirs, files]; dirs is the sequence of sub-directories   *)
(* os.walk lists and files the sequence of non-directory entries.  A file  *)
(* listing is run-length encoded: a run [file, count] stands for count     *)
(* consecutive entries that differ only in the number name.n (1..count; 0   *)
(* for a run of one, whose name carries no number).                        *)
(* A file entry carries what the file system answers for it:               *)
(*   symlink  Path.is_symlink()                                            *)
(*   resolve  where resolve() lands: "inside" the resolved root or         *)
(*            "outside" it (relative_to raises ValueError)                 *)
(*   stat     "ok" / "error" (stat() raises OSError)                       *)
(*   size     st_size                                                      *)
(*   probe    outcome of reading 1024 characters as UTF-8                  *)
(*   read     outcome of reading the whole file as UTF-8                   *)
(***************************************************************************)
EXTENDS Integers, Sequences, FiniteSets, TLC

MAX_FILE_SIZE == 10 * 1024 * 1024
MAX_TOTAL_SIZE == 100 * 1024 * 1024
MAX_FILES == 1000

TEXT_EXTENSIONS ==
    { ".md", ".txt", ".py", ".sh", ".bash", ".js", ".ts", ".json", ".yaml", ".yml",
      ".html", ".css", ".xml", ".toml", ".ini", ".cfg", ".conf", ".sql", ".r", ".R",
      ".jsx", ".tsx", ".vue", ".svelte", ".php", ".rb", ".pl", ".lua", ".go", ".rs",
      ".java", ".kt", ".scala", ".c", ".cpp", ".h", ".hpp", ".cs", ".swift", ".m" }

SAFE_BINARY_EXTENSIONS ==
    { ".png", ".jpg", ".jpeg", ".gif", ".webp", ".svg", ".ico", ".bmp",
      ".ttf", ".otf", ".woff", ".woff2", ".eot", ".pdf",
      ".zip", ".tar", ".gz", ".bz2", ".7z" }

SUSPICIOUS_BINARY_EXTENSIONS ==
    { ".exe", ".dll", ".so", ".dylib", ".bin", ".dat",
      ".pyc", ".pyo", ".class", ".jar", ".war", ".wasm", ".node" }

(* ------------------------------ bounds --------------------------------- *)

\* size in bytes of an ordinary small file
SmallSize == 1024
\* longest sequence of special files in front of a listing's run
MaxHead == 1

(* --------------------------- file system -------------------------------- *)

Name(dot, stem, ext) == [dot |-> dot, stem |-> stem, ext |-> ext, n |-> 0]

File(stem, ext, size) ==
    [ name    |-> Name(FALSE, stem, ext),
      symlink |-> FALSE,
      resolve |-> "inside",
      stat    |-> "ok",
      size    |-> size,
      probe   |-> "ok",
      read    |-> "ok" ]

Hidden(f) == [f EXCEPT !.name.dot = TRUE]

SkillMd    == File("SKILL", ".md", SmallSize)
EmptyText  == File("empty", ".txt", 0)
AtCapText  == File("atcap", ".py", MAX_FILE_SIZE)
HugeText   == File("huge", ".json", MAX_FILE_SIZE + 1)
HiddenFile == Hidden(File("env", ".md", SmallSize))
LinkFile   == [File("link", ".md", SmallSize) EXCEPT !.symlink = TRUE]
HiddenLink == Hidden([File("hlink", ".md", SmallSize) EXCEPT !.symlink = TRUE])
EscapeFile == [File("escape", ".md", SmallSize) EXCEPT !.resolve = "outside"]
GoneFile   == [File("gone", ".md", SmallSize) EXCEPT !.stat = "error"]
ImageFile  == File("logo", ".PNG", SmallSize)
ExeFile    == File("tool", ".exe", SmallSize)
NoExtText  == File("LICENSE", "", SmallSize)
NoExtHuge  == File("dump", "", MAX_FILE_SIZE + 1)
NoExtBin   == [File("blob", "", SmallSize) EXCEPT !.probe = "decode_error"]
NoExtDeny  == [File("secret", ".key", SmallSize) EXCEPT !.probe = "io_error"]
BadText    == [File("latin1", ".txt", SmallSize) EXCEPT !.read = "error"]

FileKinds ==
    { SkillMd, EmptyText, AtCapText, HugeText, HiddenFile, LinkFile, HiddenLink,
      EscapeFile, GoneFile, ImageFile, ExeFile, NoExtText, NoExtHuge,
      NoExtBin, NoExtDeny, BadText }

\* the kinds in front of a run
HeadKinds == { SkillMd, EmptyText, HiddenFile, LinkFile, EscapeFile, GoneFile }

\* the kinds that follow a long run
TailKinds == { SkillMd, HiddenFile, LinkFile, HugeText, EmptyText }

Run(f, n) == [file |-> f, count |-> n]

Dir(dot, stem, symlink, dirs, files) ==
    [ name |-> Name(dot, stem, ""), symlink |-> symlink, dirs |-> dirs, files |-> files ]

\* sequences over S of length at most n
SeqsUpTo(S, n) == UNION { [1..k -> S] : k \in 0..n }

Singles(s) == [i \in 1..Len(s) |-> Run(s[i], 1)]

\* the sub-directories of a populated root: a hidden one, a symlinked one
\* and an ordinary one with a nested level
SubDirs ==
    << Dir(TRUE, "git", FALSE, <<>>, <<Run(File("config", ".txt", SmallSize), 1)>>),
       Dir(FALSE, "linked", TRUE, <<>>, <<Run(File("target", ".md", SmallSize), 1)>>),
       Dir(FALSE, "scripts", FALSE,
           << Dir(FALSE, "lib", FALSE, <<>>,
                  <<Run(File("util", ".py", SmallSize), 1), Run(HugeText, 1)>>),
              Dir(TRUE, "hlinked", TRUE, <<>>, <<Run(File("x", ".md", SmallSize), 1)>>) >>,
           << Run(File("run", ".sh", SmallSize), 1), Run(HiddenFile, 1),
              Run(LinkFile, 1), Run(ExeFile, 1) >>) >>

DirChoices == { <<>>, SubDirs }

\* the number of 10 MiB files that no longer fit under the total cap
FillRun == MAX_TOTAL_SIZE \div MAX_FILE_SIZE + 1

SmallFills == { <<>>, <<Run(AtCapText, FillRun)>>, <<Run(AtCapText, FillRun - 1)>> }

\* nothing, or one file of the given kinds
Optional(kinds) == { <<>> } \cup { <<Run(k, 1)>> : k \in kinds }

\* a directory holds no two entries of the same name
DistinctNames(files) ==
    \A i, j \in 1..Len(files) : files[i].file.name = files[j].file.name => i = j

Listings(heads, fills, tails) ==
    { l \in { Singles(h) \o r \o t : h \in heads, r \in fills, t \in tails } :
        DistinctNames(l) }

SmallRoots ==
    { Dir(FALSE, "skill", FALSE, d, l) :
        d \in DirChoices,
        l \in Listings(SeqsUpTo(HeadKinds, MaxHead), SmallFills, Optional(FileKinds)) }

BigFills ==
    { <<Run(File("f", ".md", SmallSize), MAX_FILES - 1)>>,
      <<Run(File("f", ".md", SmallSize), MAX_FILES)>>,
      <<Run(LinkFile, MAX_FILES)>> }

BigRoots ==
    { Dir(FALSE, "skill", FALSE, SubDirs, l) :
        l \in Listings({ <<>> }, BigFills, Optional(TailKinds)) }

\* what skill_path names: a directory, nothing, or a regular file
Trees ==
    { [kind |-> "dir", root |-> r] : r \in SmallRoots \cup BigRoots }
    \cup { [kind |-> k, root |-> Dir(FALSE, "skill", FALSE, <<>>, <<>>)] :
             k \in {"missing", "file"} }


(* ------------------------------ state ----------------------------------- *)

VARIABLES
    tree,         \* what the file system holds at skill_path (or the remote repository)
    args,         \* parsed command line: [is_url, output]
    mpc,          \* position of main
    tmp_dir,      \* main's tmp_dir: "None" or the directory made by mkdtemp
    tmp_exists,   \* whether the temporary directory exists on disk
    exc,          \* an exception is propagating out of main's try block
    exit_status,  \* -1 while the process runs, then its exit status
    output,       \* the report built by format_output
    written,      \* where the report went: "no", "stdout" or "file"
    gpc,          \* position of gather_skill
    stack,        \* os.walk: directories still to be listed
    cur,          \* os.walk: the (root, dirs, files) triple being processed
    run,          \* position in cur.files: index of the run ...
    off,          \* ... and offset inside the run
    total_size,
    file_count,
    result,       \* gather_skill's result dict; keys holds the optional keys set
    walked        \* the relative paths of the directories os.walk has yielded

gvars == <<gpc, stack, cur, run, off, total_size, file_count, result, walked>>
mvars == <<args, mpc, tmp_dir, tmp_exists, exc, exit_status, output, written>>
vars == <<tree, args, mpc, tmp_dir, tmp_exists, exc, exit_status, output, written,
          gpc, stack, cur, run, off, total_size, file_count, result, walked>>

(* --------------------------- classify_file ------------------------------ *)

\* str.lower() on the extensions that occur in the inputs
Lower(ext) ==
    CASE ext = ".PNG" -> ".png"
      [] ext = ".MD"  -> ".md"
      [] ext = ".R"   -> ".r"
      [] OTHER        -> ext

classify_file(f) ==
    LET ext == Lower(f.name.ext)
    IN  IF ext \in TEXT_EXTENSIONS THEN "text"
        ELSE IF ext \in SAFE_BINARY_EXTENSIONS THEN "safe-binary"
        ELSE IF ext \in SUSPICIOUS_BINARY_EXTENSIONS THEN "suspicious-binary"
        ELSE IF f.probe = "ok" THEN "text"
        ELSE "unknown-binary"

(* ---------------------------- gather_skill ------------------------------ *)

\* variant: the hidden-name test is missing
StartsWithDot_Never(name) == FALSE

\* str.startswith('.')
StartsWithDot(name) == name.dot

Warning(msg, path) == [msg |-> msg, path |-> path]

TOO_LARGE      == "[FILE TOO LARGE]"
TOTAL_SKIPPED  == "[SKIPPED: Total size limit would be exceeded]"
READ_ERROR     == "[Error reading file]"
MANUAL_INSPECT == "[BINARY FILE - REQUIRES MANUAL INSPECTION]"
TYPE_UNKNOWN   == "[BINARY FILE - TYPE UNKNOWN]"
BINARY_ASSET   == "[BINARY ASSET]"

\* f.read(): the text of the file, the empty string for an empty file
ReadText(f) == IF f.size = 0 THEN "" ELSE "<file text>"

EmptyResult ==
    [ skill_path |-> "skill", files |-> <<>>, warnings |-> <<>>, keys |-> {},
      total_size |-> 0, file_count |-> 0, source_url |-> "" ]

\* skill_md.exists(): an entry named SKILL.md directly under the root
SkillMdExists(root) ==
    \/ \E i \in 1..Len(root.files) :
          LET f == root.files[i].file
          IN  f.name.stem = "SKILL" /\ f.name.ext = ".md" /\ ~f.name.dot
    \/ \E i \in 1..Len(root.dirs) :
          LET d == root.dirs[i]
          IN  d.name.stem = "SKILL" /\ d.name.ext = ".md" /\ ~d.name.dot

\* lines 133-142: the directories os.walk will descend into
KeepDir(d) == ~StartsWithDot(d.name) /\ ~d.symlink

FilteredDirs(dirs) == SelectSeq(dirs, KeepDir)

SymlinkedDir(d) == ~StartsWithDot(d.name) /\ d.symlink

DirWarnings(path, dirs) ==
    LET links == SelectSeq(dirs, SymlinkedDir)
    IN  [i \in 1..Len(links) |->
            Warning("Skipping symlinked directory", path \o <<links[i].name>>)]

Children(path, dirs) ==
    [i \in 1..Len(dirs) |-> [path |-> path \o <<dirs[i].name>>, node |-> dirs[i]]]

\* variant: the file limit compared with >=
OverFileLimit_OffByOne(n) == n >= MAX_FILES

\* line 150
OverFileLimit(n) == n > MAX_FILES

\* variant: the per-file test made against the total cap
OverFileSize_TotalCap(file_size) == file_size > MAX_TOTAL_SIZE

\* line 182
OverFileSize(file_size) == file_size > MAX_FILE_SIZE

\* variant: the total test without the size of the file at hand
OverTotalSize_NoAdd(total, file_size) == total > MAX_TOTAL_SIZE

\* line 186
OverTotalSize(total, file_size) == total + file_size > MAX_TOTAL_SIZE

Entry(rel_path, f, type, content) ==
    [ path |-> rel_path, absolute_path |-> <<"skill">> \o rel_path,
      size |-> f.size, type |-> type, content |-> content ]

Outcome(how, warn, entry, read) ==
    [how |-> how, counted |-> TRUE, warn |-> warn, entry |-> entry, read |-> read]

\* lines 170-209: a file that passed the symlink and containment checks
Collect(f, rel_path, total) ==
    LET type == classify_file(f)
    IN  IF type = "text" THEN
            IF OverFileSize(f.size) THEN
                Outcome("next", <<Warning("File exceeds size limit", rel_path)>>,
                        <<Entry(rel_path, f, type, TOO_LARGE)>>, 0)
            ELSE IF OverTotalSize(total, f.size) THEN
                Outcome("next", <<Warning("Total size limit reached, skipping", rel_path)>>,
                        <<Entry(rel_path, f, type, TOTAL_SKIPPED)>>, 0)
            ELSE IF f.read = "ok" THEN
                Outcome("next", <<>>, <<Entry(rel_path, f, type, ReadText(f))>>, f.size)
            ELSE
                Outcome("next", <<Warning("Could not read", rel_path)>>,
                        <<Entry(rel_path, f, type, READ_ERROR)>>, 0)
        ELSE IF type = "suspicious-binary" THEN
            Outcome("next", <<Warning("Suspicious binary file", rel_path)>>,
                    <<Entry(rel_path, f, type, MANUAL_INSPECT)>>, 0)
        ELSE IF type = "unknown-binary" THEN
            Outcome("next", <<Warning("Unknown binary file", rel_path)>>,
                    <<Entry(rel_path, f, type, TYPE_UNKNOWN)>>, 0)
        ELSE
            Outcome("next", <<>>, <<Entry(rel_path, f, type, BINARY_ASSET)>>, 0)

\* variant: the symlink test is missing
IsSymlink_Never(f) == FALSE

\* line 158
IsSymlink(f) == f.symlink

\* variant: the containment test is missing
Escapes_Never(f) == FALSE

\* lines 163-166: relative_to raises ValueError
Escapes(f) == f.resolve = "outside"

\* lines 145-209: one iteration of "for filename in files"
\*   how      "next" (falls through or continue), "return" or "raise"
\*   counted  whether file_count was incremented
\*   warn     the warnings appended, entry the FileEntry appended (none or one)
\*   read     the bytes added to total_size
Iteration(f, rel_path, count, total) ==
    IF StartsWithDot(f.name) THEN
        [Outcome("next", <<>>, <<>>, 0) EXCEPT !.counted = FALSE]
    ELSE IF OverFileLimit(count + 1) THEN
        Outcome("return", <<Warning("File limit exceeded", <<>>)>>, <<>>, 0)
    ELSE IF IsSymlink(f) THEN
        Outcome("next", <<Warning("Skipping symlink", rel_path)>>, <<>>, 0)
    ELSE IF Escapes(f) THEN
        Outcome("next", <<Warning("Path escape attempt blocked", rel_path)>>, <<>>, 0)
    ELSE IF f.stat = "error" THEN
        Outcome("raise", <<>>, <<>>, 0)
    ELSE
        Collect(f, rel_path, total)

\* the k-th entry of a run
Numbered(r, k) == [r.file EXCEPT !.name.n = IF r.count > 1 THEN k ELSE 0]

\* the entry of the listing at the cursor
CurFile == Numbered(cur.node.files[run], off)

InListing == run <= Len(cur.node.files)


(* ---------------------------- format_output ----------------------------- *)

Line(tag, val) == [tag |-> tag, val |-> val]

BEGIN_MARKER == Line("[UNTRUSTED CONTENT BEGIN]", <<>>)
END_MARKER   == Line("[UNTRUSTED CONTENT END]", <<>>)
NO_CONTENT   == Line("[No content available]", <<>>)

\* Python truth value of a str
Truthy(content) == content # ""

\* lines 254-265: the content block of one FileEntry
Block(f) ==
    << Line("####", <<>>),
       Line("# FILE", <<f.path>>),
       Line("# TYPE", <<f.type>>),
       Line("# SIZE", <<f.size>>),
       Line("####", <<>>) >>
    \o (IF Truthy(f.content)
        THEN << BEGIN_MARKER, Line("content", <<f.content>>), END_MARKER >>
        ELSE << NO_CONTENT >>)

\* the groups of lines s[lo..hi], concatenated in order
RECURSIVE Concat(_, _, _)
Concat(s, lo, hi) ==
    IF lo > hi THEN <<>>
    ELSE IF lo = hi THEN s[lo]
    ELSE LET mid == (lo + hi) \div 2
         IN  Concat(s, lo, mid) \o Concat(s, mid + 1, hi)

WarningLine(w) == << Line("warning", <<w>>) >>

InventoryLine(f) == << Line("inventory", <<f.path, f.size, f.type>>) >>

\* result.get(key, default)
Get(r, key, value, default) == IF key \in r.keys THEN value ELSE default

format_output(r) ==
    << Line("====", <<>>),
       Line("SKILL SECURITY REVIEW - FILE CONTENTS", <<>>),
       Line("====", <<>>),
       Line("Skill Path", <<r.skill_path>>) >>
    \o (IF "source_url" \in r.keys THEN << Line("Source URL", <<r.source_url>>) >> ELSE <<>>)
    \o << Line("Total Files", <<Get(r, "file_count", r.file_count, Len(r.files))>>),
          Line("Total Size", <<Get(r, "total_size", r.total_size, 0)>>),
          Line("Limits", <<MAX_FILES, MAX_FILE_SIZE, MAX_TOTAL_SIZE>>) >>
    \o (IF r.warnings # <<>>
        THEN << Line("### WARNINGS ###", <<>>) >>
             \o Concat([i \in 1..Len(r.warnings) |-> WarningLine(r.warnings[i])],
                       1, Len(r.warnings))
        ELSE <<>>)
    \o << Line("----", <<>>), Line("FILE INVENTORY", <<>>), Line("----", <<>>) >>
    \o Concat([i \in 1..Len(r.files) |-> InventoryLine(r.files[i])], 1, Len(r.files))
    \o << Line("====", <<>>), Line("FILE CONTENTS", <<>>), Line("====", <<>>) >>
    \o Concat([i \in 1..Len(r.files) |-> Block(r.files[i])], 1, Len(r.files))
    \o << Line("====", <<>>), Line("END OF SKILL CONTENTS", <<>>), Line("====", <<>>) >>

(* ------------------------------- actions -------------------------------- *)

Init ==
    /\ tree \in Trees
    /\ args \in [is_url : BOOLEAN]
    /\ args.is_url => tree.kind = "dir"
    /\ mpc = "start"
    /\ tmp_dir = "None"
    /\ tmp_exists = FALSE
    /\ exc = FALSE
    /\ exit_status = -1
    /\ output = <<>>
    /\ written = "no"
    /\ gpc = "idle"
    /\ stack = <<>>
    /\ cur = [path |-> <<>>, node |-> Dir(FALSE, "skill", FALSE, <<>>, <<>>)]
    /\ run = 1
    /\ off = 1
    /\ total_size = 0
    /\ file_count = 0
    /\ result = EmptyResult
    /\ walked = <<>>

\* main, lines 282-288; clone_repo line 60 (mkdtemp)
Start ==
    /\ mpc = "start"
    /\ IF args.is_url
       THEN mpc' = "clone" /\ tmp_exists' = TRUE
       ELSE mpc' = "gather" /\ UNCHANGED tmp_exists
    /\ UNCHANGED <<tree, args, tmp_dir, exc, exit_status, output, written>>
    /\ UNCHANGED gvars

CloneOutcomes == {"ok", "FileNotFoundError", "CalledProcessError", "TimeoutExpired"}

\* clone_repo, lines 61-81: git clone and its three handlers
clone_repo(o) ==
    IF o = "ok"
    THEN [tmp_dir |-> "skill-review-tmp", exists |-> TRUE, exit |-> -1, pc |-> "gather"]
    ELSE [tmp_dir |-> "None", exists |-> FALSE, exit |-> 1, pc |-> "exit"]

Clone ==
    /\ mpc = "clone"
    /\ \E o \in CloneOutcomes :
          LET c == clone_repo(o)
          IN  /\ tmp_dir' = c.tmp_dir
              /\ tmp_exists' = c.exists
              /\ exit_status' = c.exit
              /\ mpc' = c.pc
    /\ UNCHANGED <<tree, args, exc, output, written>>
    /\ UNCHANGED gvars

\* gather_skill, lines 104-128
GatherStart ==
    /\ mpc = "gather" /\ gpc = "idle"
    /\ IF tree.kind = "missing" THEN
            /\ result' = [EmptyResult EXCEPT
                              !.warnings = <<Warning("Path does not exist", <<>>)>>]
            /\ gpc' = "returned"
            /\ UNCHANGED stack
       ELSE IF tree.kind = "file" THEN
            /\ result' = [EmptyResult EXCEPT
                              !.warnings = <<Warning("Path is not a directory", <<>>)>>]
            /\ gpc' = "returned"
            /\ UNCHANGED stack
       ELSE
            /\ result' = [EmptyResult EXCEPT
                              !.warnings = IF SkillMdExists(tree.root) THEN <<>>
                                           ELSE <<Warning("SKILL.md not found", <<>>)>>]
            /\ gpc' = "walk"
            /\ stack' = << [path |-> <<>>, node |-> tree.root] >>
    /\ total_size' = 0
    /\ file_count' = 0
    /\ UNCHANGED <<cur, run, off, walked, tree>>
    /\ UNCHANGED mvars

\* lines 131-142: os.walk yields the next directory and its dirs are filtered
WalkDir ==
    /\ mpc = "gather" /\ gpc = "walk" /\ stack # <<>>
    /\ LET top == Head(stack)
       IN  /\ cur' = top
           /\ walked' = Append(walked, top.path)
           /\ result' = [result EXCEPT
                             !.warnings = @ \o DirWarnings(top.path, top.node.dirs)]
           /\ stack' = Children(top.path, FilteredDirs(top.node.dirs)) \o Tail(stack)
    /\ run' = 1
    /\ off' = 1
    /\ gpc' = "files"
    /\ UNCHANGED <<total_size, file_count, tree>>
    /\ UNCHANGED mvars

\* lines 144-209: one iteration of the loop over files
ProcessFile ==
    /\ mpc = "gather" /\ gpc = "files" /\ InListing
    /\ LET f == CurFile
           o == Iteration(f, cur.path \o <<f.name>>, file_count, total_size)
       IN  /\ file_count' = IF o.counted THEN file_count + 1 ELSE file_count
           /\ total_size' = total_size + o.read
           /\ result' = [result EXCEPT !.files = @ \o o.entry,
                                       !.warnings = @ \o o.warn]
           /\ gpc' = CASE o.how = "next"   -> "files"
                       [] o.how = "return" -> "returned"
                       [] o.how = "raise"  -> "raised"
           /\ IF o.how # "next" THEN UNCHANGED <<run, off>>
              ELSE IF off < cur.node.files[run].count
                   THEN off' = off + 1 /\ UNCHANGED run
                   ELSE off' = 1 /\ run' = run + 1
    /\ UNCHANGED <<stack, cur, walked, tree>>
    /\ UNCHANGED mvars

\* the loop over files ends; os.walk goes on
EndDir ==
    /\ mpc = "gather" /\ gpc = "files" /\ ~InListing
    /\ gpc' = "walk"
    /\ UNCHANGED <<stack, cur, run, off, total_size, file_count, result, walked, tree>>
    /\ UNCHANGED mvars

\* lines 211-215
Finish ==
    /\ mpc = "gather" /\ gpc = "walk" /\ stack = <<>>
    /\ result' = [result EXCEPT !.keys = @ \cup {"total_size", "file_count"},
                                !.total_size = total_size,
                                !.file_count = file_count]
    /\ gpc' = "returned"
    /\ UNCHANGED <<stack, cur, run, off, total_size, file_count, walked, tree>>
    /\ UNCHANGED mvars

\* main, lines 291-294
Format ==
    /\ mpc = "gather" /\ gpc = "returned"
    /\ result' = IF tmp_dir # "None"
                 THEN [result EXCEPT !.keys = @ \cup {"source_url"}, !.source_url = "url"]
                 ELSE result
    /\ output' = format_output(result')
    /\ mpc' = "write"
    /\ UNCHANGED <<tree, args, tmp_dir, tmp_exists, exc, exit_status, written>>
    /\ UNCHANGED <<gpc, stack, cur, run, off, total_size, file_count, walked>>

\* an exception leaves gather_skill and main's try block
Propagate ==
    /\ mpc = "gather" /\ gpc = "raised"
    /\ exc' = TRUE
    /\ mpc' = "finally"
    /\ UNCHANGED <<tree, args, tmp_dir, tmp_exists, exit_status, output, written>>
    /\ UNCHANGED gvars

\* main, lines 296-301: --output names a file (that may fail to open) or is absent
WriteOutcomes == {"stdout", "file", "error"}

Write ==
    /\ mpc = "write"
    /\ \E o \in WriteOutcomes :
          /\ written' = IF o = "error" THEN "no" ELSE o
          /\ exc' = (o = "error")
    /\ mpc' = "finally"
    /\ UNCHANGED <<tree, args, tmp_dir, tmp_exists, exit_status, output>>
    /\ UNCHANGED gvars

\* variant: the finally clause removes nothing
Rmtree_Skipped(dir) == FALSE

\* main, lines 302-304: whether the finally clause removes the directory
Rmtree(dir) == dir # "None"

Finally ==
    /\ mpc = "finally"
    /\ tmp_exists' = IF Rmtree(tmp_dir) THEN FALSE ELSE tmp_exists
    /\ exit_status' = IF exc THEN 1 ELSE 0
    /\ mpc' = "exit"
    /\ UNCHANGED <<tree, args, tmp_dir, exc, output, written>>
    /\ UNCHANGED gvars

Next ==
    \/ Start
    \/ Clone
    \/ GatherStart
    \/ WalkDir
    \/ ProcessFile
    \/ EndDir
    \/ Finish
    \/ Format
    \/ Propagate
    \/ Write
    \/ Finally

Spec == Init /\ [][Next]_vars

\* The program is sequential and every step of it ends (git clone is cut off by
\* its timeout, the walk is over a finite tree), so a step that can be taken is
\* taken.  The runs over the short listings cover every path through main.
ShortInit == Init /\ tree.root \notin BigRoots

FairSpec == ShortInit /\ [][Next]_vars /\ WF_vars(Next)


(* ------------------- reading the tree and the result -------------------- *)

Range(s) == { s[i] : i \in 1..Len(s) }

\* the directory of the tree at a relative path
RECURSIVE NodeAt(_, _)
NodeAt(node, path) ==
    IF path = <<>> THEN node
    ELSE NodeAt(CHOOSE d \in Range(node.dirs) : d.name = Head(path), Tail(path))

\* the entries of a listing in front of position (r, k), with their relative paths
ListedBefore(path, node, r, k) ==
    UNION { { [ path |-> path \o << Numbered(node.files[i], n).name >>,
                file |-> node.files[i].file ] :
              n \in 1..(IF i < r THEN node.files[i].count ELSE IF i = r THEN k - 1 ELSE 0) } :
            i \in 1..Len(node.files) }

\* the files the loop over files has gone past: every file of the directories
\* walked earlier and the files of the current directory in front of the cursor
Passed ==
    UNION { LET node == NodeAt(tree.root, walked[i])
            IN  ListedBefore(walked[i], node,
                             IF i = Len(walked) THEN run ELSE Len(node.files) + 1, off) :
            i \in 1..Len(walked) }

\* gather_skill has just stopped, by a return or by an exception
Returned == mpc = "gather" /\ gpc = "returned"
Stopped  == mpc = "gather" /\ gpc \in {"returned", "raised"}

\* the loop over files is about to take the entry at the cursor
AtFile == mpc = "gather" /\ gpc = "files" /\ InListing

WarningPaths(msg) ==
    LET ws == SelectSeq(result.warnings, LAMBDA w : w.msg = msg)
    IN  [i \in 1..Len(ws) |-> ws[i].path]

NoDuplicates(s) == Cardinality(Range(s)) = Len(s)

EntryPaths == { result.files[i].path : i \in 1..Len(result.files) }

\* no component of the path starts with '.'
NoDot(path) == \A i \in 1..Len(path) : ~path[i].dot

LastEntry == result.files[Len(result.files)]

\* the step appended exactly this FileEntry and exactly this warning
Appended(e, w) ==
    /\ result'.files = Append(result.files, e)
    /\ result'.warnings = Append(result.warnings, w)

\* the entry at the cursor gets as far as classification
Collected(f) ==
    /\ ~f.name.dot
    /\ file_count < MAX_FILES
    /\ ~f.symlink
    /\ f.resolve = "inside"
    /\ f.stat = "ok"

CurPath == cur.path \o << CurFile.name >>

(* --------------------------------- C1 ----------------------------------- *)

LimitWarnings == Len(WarningPaths("File limit exceeded"))

SkipWarnings ==
    Len(WarningPaths("Skipping symlink")) + Len(WarningPaths("Path escape attempt blocked"))

\* the non-hidden files of a directory and of the directories visited below it
RECURSIVE Eligible(_)
Eligible(node) ==
    LET counted(i) == IF node.files[i].file.name.dot THEN 0 ELSE node.files[i].count
        RECURSIVE SumFiles(_)
        SumFiles(i) == IF i = 0 THEN 0 ELSE counted(i) + SumFiles(i - 1)
        RECURSIVE SumDirs(_)
        SumDirs(i) ==
            IF i = 0 THEN 0
            ELSE (IF node.dirs[i].name.dot \/ node.dirs[i].symlink THEN 0
                  ELSE Eligible(node.dirs[i])) + SumDirs(i - 1)
    IN  SumFiles(Len(node.files)) + SumDirs(Len(node.dirs))

C1_State ==
    /\ Len(result.files) <= MAX_FILES
    /\ file_count <= MAX_FILES + 1
    /\ LimitWarnings = IF file_count > MAX_FILES THEN 1 ELSE 0
    /\ file_count > MAX_FILES =>
          /\ gpc = "returned"
          /\ Len(result.files) + SkipWarnings = MAX_FILES
    /\ Returned /\ tree.kind = "dir" =>
          (LimitWarnings = 1 <=> Eligible(tree.root) > MAX_FILES)

C1_Step ==
    LimitWarnings = 1 =>
        /\ UNCHANGED <<walked, stack, cur, run, off, file_count, total_size>>
        /\ result'.files = result.files
        /\ result'.warnings = result.warnings

\* C1: the walk counts at most MAX_FILES + 1 files; the count passes MAX_FILES
\* exactly when the result holds the one 'File limit exceeded' warning, which
\* happens in every returning walk of a tree with more than MAX_FILES non-hidden
\* files in visited directories; exactly MAX_FILES files were then given a
\* FileEntry or a skip warning, the inventory never exceeds MAX_FILES entries,
\* and after the warning no directory or file is visited and nothing is added.
C1_FileCountCap == [](C1_State) /\ [][C1_Step]_vars

\* the cap stopped the walk inside a sub-directory, with directories still unvisited
C1_Witness ==
    /\ Returned /\ file_count = MAX_FILES + 1 /\ LimitWarnings = 1
    /\ Len(walked) > 1 /\ stack # <<>>
    /\ Len(result.files) = MAX_FILES

(* --------------------------------- C2 ----------------------------------- *)

\* the FileEntry holds the text read from the file
IsRead(e) == e.type = "text" /\ e.content \notin {TOO_LARGE, TOTAL_SKIPPED, READ_ERROR}

\* the sizes of the entries of s[lo..hi] that were read in full
RECURSIVE SumRead(_, _, _)
SumRead(s, lo, hi) ==
    IF lo > hi THEN 0
    ELSE IF lo = hi THEN (IF IsRead(s[lo]) THEN s[lo].size ELSE 0)
    ELSE LET mid == (lo + hi) \div 2
         IN  SumRead(s, lo, mid) + SumRead(s, mid + 1, hi)

C2_State ==
    /\ total_size <= MAX_TOTAL_SIZE
    /\ Stopped => total_size = SumRead(result.files, 1, Len(result.files))

C2_Step ==
    AtFile =>
        IF Len(result'.files) = Len(result.files) + 1 THEN
            LET e == result'.files[Len(result'.files)]
            IN  /\ total_size' = total_size + (IF IsRead(e) THEN e.size ELSE 0)
                /\ (e.type = "text" /\ e.size <= MAX_FILE_SIZE
                      /\ total_size + e.size > MAX_TOTAL_SIZE) =>
                      /\ e.content = TOTAL_SKIPPED
                      /\ e.path = CurPath
                      /\ result'.warnings =
                            Append(result.warnings,
                                   Warning("Total size limit reached, skipping", e.path))
        ELSE total_size' = total_size

\* C2: total_size is the sum of the sizes of the text files read in full and
\* never exceeds MAX_TOTAL_SIZE; a text file within the per-file cap whose size
\* would take the total over MAX_TOTAL_SIZE gets the total-limit placeholder and
\* one warning and leaves the total unchanged.
C2_TotalSizeCap == [](C2_State) /\ [][C2_Step]_vars

\* a file was refused for the total cap after others had filled it
C2_Witness ==
    /\ gpc = "files" /\ result.files # <<>>
    /\ LastEntry.content = TOTAL_SKIPPED
    /\ LastEntry.size <= MAX_FILE_SIZE
    /\ total_size > MAX_TOTAL_SIZE - MAX_FILE_SIZE


(* --------------------------------- C3 ----------------------------------- *)

\* every symbolic link under a directory: link files and linked directories,
\* also those in hidden directories
RECURSIVE AllLinks(_, _)
AllLinks(node, path) ==
    UNION { { path \o << Numbered(node.files[i], n).name >> :
                n \in 1..(IF node.files[i].file.symlink THEN node.files[i].count ELSE 0) } :
            i \in 1..Len(node.files) }
    \cup { path \o <<d.name>> : d \in { x \in Range(node.dirs) : x.symlink } }
    \cup UNION { AllLinks(d, path \o <<d.name>>) :
                 d \in { x \in Range(node.dirs) : ~x.symlink } }

LinkWarningCount(path) ==
    Cardinality({ i \in 1..Len(result.warnings) :
                    /\ result.warnings[i].path = path
                    /\ result.warnings[i].msg \in
                          {"Skipping symlink", "Skipping symlinked directory"} })

\* C3 as stated: when gather_skill returns, every symbolic link under the root
\* has exactly one skip warning and no FileEntry.
C3_EveryLinkWarned ==
    Returned /\ tree.kind = "dir" =>
        \A p \in AllLinks(tree.root, <<>>) :
            LinkWarningCount(p) = 1 /\ p \notin EntryPaths

\* the prefixes of a path, the path itself included
Prefixes(path) == { SubSeq(path, 1, k) : k \in 1..Len(path) }

\* the symlinked sub-directories, not hidden, listed in the walked directories
LinkedDirsMet ==
    UNION { { walked[i] \o <<d.name>> :
                d \in { x \in Range(NodeAt(tree.root, walked[i]).dirs) :
                          x.symlink /\ ~x.name.dot } } :
            i \in 1..Len(walked) }

C3_State ==
    /\ \A i \in 1..Len(walked) : \A p \in Prefixes(walked[i]) :
           ~NodeAt(tree.root, p).symlink
    /\ Stopped =>
          LET fileLinks == { x \in Passed : x.file.symlink }
              warned    == WarningPaths("Skipping symlink")
              warnedDir == WarningPaths("Skipping symlinked directory")
          IN  /\ NoDuplicates(warned)
              /\ Range(warned) = { x.path : x \in { y \in fileLinks : ~y.file.name.dot } }
              /\ NoDuplicates(warnedDir)
              /\ Range(warnedDir) = LinkedDirsMet
              /\ EntryPaths \cap { x.path : x \in fileLinks } = {}
              /\ \A p \in EntryPaths : \A q \in Prefixes(SubSeq(p, 1, Len(p) - 1)) :
                     ~NodeAt(tree.root, q).symlink

C3_Step ==
    AtFile /\ CurFile.symlink /\ ~CurFile.name.dot /\ file_count < MAX_FILES =>
        /\ result'.files = result.files
        /\ result'.warnings = Append(result.warnings, Warning("Skipping symlink", CurPath))
        /\ total_size' = total_size
        /\ gpc' = "files"

\* C3 (amended): every symbolic link the walk meets whose name does not start
\* with '.' (a directory listed in a visited directory, a file reached before the
\* walk stops) is skipped with exactly one corresponding warning and never gets
\* a FileEntry; no symlinked directory is walked and nothing beneath one is
\* reported; a link whose name starts with '.' gets no warning at all.
C3_LinksMetWarned == [](C3_State) /\ [][C3_Step]_vars

\* a link file and a linked directory were both skipped with their warnings
C3_Witness ==
    /\ Returned
    /\ Len(WarningPaths("Skipping symlink")) = 1
    /\ Len(WarningPaths("Skipping symlinked directory")) = 1
    /\ \E x \in Passed : x.file.symlink /\ x.file.name.dot

(* --------------------------------- C4 ----------------------------------- *)

C4_State ==
    /\ \A i \in 1..Len(walked) : NoDot(walked[i])
    /\ Stopped =>
          /\ \A i \in 1..Len(result.files) : NoDot(result.files[i].path)
          /\ \A i \in 1..Len(result.warnings) : NoDot(result.warnings[i].path)
          /\ file_count =
                Cardinality({ x \in Passed : ~x.file.name.dot })
                + (IF gpc = "raised" \/ file_count > MAX_FILES THEN 1 ELSE 0)

C4_Step ==
    AtFile /\ CurFile.name.dot =>
        /\ UNCHANGED <<file_count, total_size, result>>
        /\ gpc' = "files"

\* C4: no FileEntry and no warning names a path with a component that starts
\* with '.', no directory with such a component is walked, file_count counts
\* only the files whose name does not start with '.', and the iteration over a
\* hidden file changes neither the counter nor the result.
C4_HiddenExcluded == [](C4_State) /\ [][C4_Step]_vars

\* a hidden file and a hidden directory were passed over
C4_Witness ==
    /\ Returned
    /\ Len(walked) > 1
    /\ \E d \in Range(tree.root.dirs) : d.name.dot
    /\ \E x \in Passed : x.file.name.dot /\ Len(x.path) = 1
    /\ file_count > 0

(* --------------------------------- C5 ----------------------------------- *)

\* C5 as stated: no exception escapes gather_skill for a per-file failure.
C5_NoExceptionEscapes == gpc # "raised"

(* --------------------------------- C6 ----------------------------------- *)

Ended == exit_status # -1

CloneFailed == mpc = "exit" /\ args.is_url /\ tmp_dir = "None"

C6_State ==
    /\ Ended => ~tmp_exists
    /\ Ended <=> mpc = "exit"
    /\ CloneFailed => exit_status = 1 /\ gpc = "idle" /\ output = <<>> /\ written = "no"
    /\ args.is_url /\ mpc \in {"clone", "gather", "write", "finally"} => tmp_exists

C6_Step ==
    tmp_exists /\ ~tmp_exists' =>
        \/ mpc = "clone" /\ exit_status' = 1
        \/ mpc = "finally" /\ gpc \in {"returned", "raised"} /\ mpc' = "exit"

\* C6: in a run started with a URL the temporary directory exists from mkdtemp
\* until it is removed, it is eventually removed and the process ends, and it
\* is gone when the process has ended: a failed clone removes it and ends the
\* process with status 1 before any scan, and after a successful clone it is
\* removed only by the finally clause, after gather_skill has stopped, whether
\* the scan, the formatting and the writing succeeded or raised.
C6_TempDirRemoved ==
    /\ [](C6_State)
    /\ [][C6_Step]_vars
    /\ (tmp_exists ~> (Ended /\ ~tmp_exists))

\* the clone succeeded, the run failed with an exception, the directory is gone
C6_Witness ==
    /\ mpc = "exit" /\ args.is_url /\ tmp_dir # "None"
    /\ exc /\ exit_status = 1 /\ ~tmp_exists

(* --------------------------------- C7 ----------------------------------- *)

\* C7 as stated: in the report every file header is followed by the begin
\* marker, the content and the end marker, and every FileEntry has its header.
C7_ContentBracketed ==
    mpc = "write" =>
        /\ Cardinality({ p \in 1..Len(output) : output[p].tag = "# FILE" })
              = Len(result.files)
        /\ \A p \in 1..Len(output) :
              output[p].tag = "# FILE" =>
                  /\ p + 6 <= Len(output)
                  /\ output[p + 4] = BEGIN_MARKER
                  /\ output[p + 5].tag = "content"
                  /\ output[p + 6] = END_MARKER

(* --------------------------------- C8 ----------------------------------- *)

C8_State ==
    Stopped =>
        \A i \in 1..Len(result.files) :
            LET e == result.files[i]
            IN  e.content = TOO_LARGE <=> (e.type = "text" /\ e.size > MAX_FILE_SIZE)

C8_Step ==
    AtFile /\ Collected(CurFile) /\ classify_file(CurFile) = "text"
           /\ CurFile.size > MAX_FILE_SIZE =>
        /\ Appended([ path |-> CurPath, absolute_path |-> <<"skill">> \o CurPath,
                      size |-> CurFile.size, type |-> "text", content |-> TOO_LARGE ],
                    Warning("File exceeds size limit", CurPath))
        /\ total_size' = total_size
        /\ gpc' = "files"

\* C8: a text file larger than MAX_FILE_SIZE that the walk collects yields a
\* FileEntry with the size-exceeded placeholder, its true size and the category
\* text, exactly one warning, and an unchanged running total, whatever the total
\* is; no other FileEntry has that placeholder.
C8_FileSizeCap == [](C8_State) /\ [][C8_Step]_vars

\* an oversized file met when the total cap would be exceeded as well
C8_Witness ==
    /\ gpc = "files" /\ result.files # <<>>
    /\ LastEntry.content = TOO_LARGE /\ LastEntry.type = "text"
    /\ LastEntry.size > MAX_FILE_SIZE
    /\ total_size + LastEntry.size > MAX_TOTAL_SIZE
    /\ total_size > 0

(* --------------------------------- C9 ----------------------------------- *)

C9_State ==
    Stopped =>
        LET outside == { x \in Passed : x.file.resolve = "outside" }
            blocked == WarningPaths("Path escape attempt blocked")
        IN  /\ EntryPaths \cap { x.path : x \in outside } = {}
            /\ EntryPaths \subseteq
                  { x.path : x \in { y \in Passed : y.file.resolve = "inside" } }
            /\ NoDuplicates(blocked)
            /\ Range(blocked) =
                  { x.path : x \in { y \in outside : ~y.file.name.dot /\ ~y.file.symlink } }

\* C9: a file that resolves outside the resolved root never gets a FileEntry:
\* when it reaches the containment check it leaves exactly one 'Path escape
\* attempt blocked' warning; every FileEntry is of a file that resolves inside.
C9_Containment == C9_State

\* an escaping file was blocked and files around it were collected
C9_Witness ==
    /\ Returned
    /\ Len(WarningPaths("Path escape attempt blocked")) = 1
    /\ Len(result.files) > 1

(* --------------------------------- C10 ---------------------------------- *)

\* C10 as stated: whenever gather_skill returns after the traversal started, the
\* result records the final file_count and total_size, and the recorded
\* file_count does not exceed MAX_FILES.
C10_SummaryRecorded ==
    Returned /\ tree.kind = "dir" =>
        /\ {"file_count", "total_size"} \subseteq result.keys
        /\ result.file_count = file_count
        /\ result.total_size = total_size
        /\ result.file_count <= MAX_FILES

=============================================================================
